---- MODULE Spec2Model ----
(***************************************************************************)
(* A model of py/utils/git_utils.py (class GitBranch) and of               *)
(* py/utils/gs_utils.py (class GSUtils).  The two modules share no state;  *)
(* each gets its own specification over the variables below.               *)
(*                                                                         *)
(* Python strings that the code slices, joins or searches are modelled as  *)
(* sequences of one-character strings, so that prefix stripping, joining   *)
(* and the substring test are computed as the code computes them.          *)
(***************************************************************************)
EXTENDS Integers, Sequences, FiniteSets, TLC

VARIABLES
    \* ---- git_utils.GitBranch ----
    self,       \* the instance fields set by GitBranch.__init__
    repo,       \* local branches of the repository: name -> [ahead, upstream]
    current,    \* the checked-out branch
    dirty,      \* the working tree holds uncommitted changes
    pc,         \* "init", "in_block", "enter_failed", "exited"
    cmds,       \* every command handed to shell_utils.run, in order
    op,         \* the last handler run: its name, inputs, pre-state, exception
    \* ---- gs_utils.GSUtils ----
    store,      \* the bucket: object key -> [content, acl]
    call,       \* the last GSUtils call: its name, arguments and pre-state
    ret,        \* what the last GSUtils call returned
    nops,       \* number of GSUtils calls made so far
    disk        \* the local file system: directories, files with contents,
                \* and the files that are held open

gitVars == <<self, repo, current, dirty, pc, cmds, op>>
gsVars == <<store, call, ret, nops, disk>>
vars == <<self, repo, current, dirty, pc, cmds, op, store, call, ret, nops, disk>>

-----------------------------------------------------------------------------
(* Strings as sequences of characters                                      *)

\* The characters used, in ASCII order.
Alphabet == <<"\n", " ", "*", "/", "2", "a", "b", "c", "e", "m", "p", "r", "s", "t">>

Rank(c) == CHOOSE i \in 1..Len(Alphabet) : Alphabet[i] = c

\* Python: s < t on strings (lexicographic by code point).
RECURSIVE StrLess(_, _)
StrLess(s, t) ==
    IF t = <<>> THEN FALSE
    ELSE IF s = <<>> THEN TRUE
    ELSE IF Head(s) = Head(t) THEN StrLess(Tail(s), Tail(t))
    ELSE Rank(Head(s)) < Rank(Head(t))

\* Python: s in t
IsSubstring(s, t) ==
    \E i \in 0..(Len(t) - Len(s)) : SubSeq(t, i + 1, i + Len(s)) = s

\* Python: t.startswith(s)
StartsWith(t, s) == Len(s) <= Len(t) /\ SubSeq(t, 1, Len(s)) = s

\* Python: s.endswith('/')
EndsWithSlash(s) == Len(s) > 0 /\ s[Len(s)] = "/"

\* Python: s[n:]
SliceFrom(s, n) == SubSeq(s, n + 1, Len(s))

\* Python: s[n:-1]
SliceFromToLast(s, n) == SubSeq(s, n + 1, Len(s) - 1)

Range(f) == {f[i] : i \in DOMAIN f}

\* The elements of a finite set of strings as a sorted list (Python: sorted(S)).
RECURSIVE Sorted(_)
Sorted(S) ==
    IF S = {} THEN <<>>
    ELSE LET m == CHOOSE x \in S : \A y \in S \ {x} : StrLess(x, y)
         IN  <<m>> \o Sorted(S \ {m})

-----------------------------------------------------------------------------
(* git_utils.py: class GitBranch                                           *)

master == <<"m", "a", "s", "t", "e", "r">>
tmp == <<"t", "m", "p">>
tmp2 == <<"t", "m", "p", "2">>

\* Branch names a GitBranch is constructed with.
WorkBranchNames == {tmp, tmp2}

\* How many times the body of the with block calls commit_and_upload.
MaxBlockCalls == 1

\* 'nothing to commit' (git_utils.py line 123)
NothingToCommit ==
    <<"n", "o", "t", "h", "i", "n", "g", " ", "t", "o", " ", "c", "o", "m", "m", "i", "t">>

\* What git prints when `commit -a` finds a clean tree, and when it breaks.
OutputCleanTree == NothingToCommit \o <<",", " ", "c", "l", "e", "a", "n", "\n">>
OutputFatal == <<"f", "a", "t", "a", "l", "\n">>

NoBranch == <<>>

CmdReset == [argv |-> <<"reset", "--hard", "HEAD">>, branch |-> NoBranch]
CmdCheckoutMaster == [argv |-> <<"checkout", "master">>, branch |-> NoBranch]
CmdBranch == [argv |-> <<"branch">>, branch |-> NoBranch]
CmdBranchD(name) == [argv |-> <<"branch", "-D", "<branch_name>">>, branch |-> name]
CmdCheckoutB(name) ==
    [argv |-> <<"checkout", "-b", "<branch_name>", "-t", "origin/master">>,
     branch |-> name]
CmdCommit == [argv |-> <<"commit", "-a", "-m", "<commit_msg>">>, branch |-> NoBranch]
CmdIssue == [argv |-> <<"cl", "issue">>, branch |-> NoBranch]

\* 'Patch set %d' % self._patch_set
PatchSetTitle(n) == "Patch set " \o ToString(n)

\* Mutant of CmdUpload: the first upload is given a title as well.
CmdUpload_titles_first(patch_set, use_commit_queue) ==
    [argv |-> <<"cl", "upload", "-f", "--bypass-hooks", "--bypass-watchlists">>
              \o (IF patch_set >= 1 THEN <<"-t", PatchSetTitle(patch_set)>> ELSE <<>>)
              \o (IF use_commit_queue THEN <<"--use-commit-queue">> ELSE <<>>),
     branch |-> NoBranch]

\* upload_cmd as commit_and_upload builds it; patch_set is the incremented counter.
CmdUpload(patch_set, use_commit_queue) ==
    [argv |-> <<"cl", "upload", "-f", "--bypass-hooks", "--bypass-watchlists">>
              \o (IF patch_set > 1 THEN <<"-t", PatchSetTitle(patch_set)>> ELSE <<>>)
              \o (IF use_commit_queue THEN <<"--use-commit-queue">> ELSE <<>>),
     branch |-> NoBranch]

IsUpload(c) == Len(c.argv) >= 2 /\ c.argv[1] = "cl" /\ c.argv[2] = "upload"

NoExc == [type |-> "None", cmd |-> CmdBranch, output |-> <<>>]
CommandFailed(c, output) ==
    [type |-> "CommandFailedException", cmd |-> c, output |-> output]
\* re.match(...) returned None: None.group raises AttributeError
AttributeError == [type |-> "AttributeError", cmd |-> CmdIssue, output |-> <<>>]
\* the exception raised by the body of the with block
BlockError == [type |-> "BlockError", cmd |-> CmdBranch, output |-> <<>>]

FreshBranch == [ahead |-> 0, upstream |-> "origin/master"]
StaleBranch == [ahead |-> 1, upstream |-> "none"]

\* The output of `git branch`: one line per branch, the current one starred.
RECURSIVE BranchLines(_, _)
BranchLines(names, cur) ==
    IF names = <<>> THEN <<>>
    ELSE (IF Head(names) = cur THEN <<"*", " ">> ELSE <<" ", " ">>)
         \o Head(names) \o <<"\n">> \o BranchLines(Tail(names), cur)

\* What git does with one command on the work tree st = [repo, current, dirty];
\* ext: the command breaks for a reason outside the model (I/O, hooks, network).
GitRun(st, c, ext) ==
    LET fail(output) == [st |-> st, ok |-> FALSE, out |-> output]
        done(s, output) == [st |-> s, ok |-> TRUE, out |-> output]
    IN  IF ext THEN fail(OutputFatal)
        ELSE IF c = CmdReset THEN done([st EXCEPT !.dirty = FALSE], <<>>)
        ELSE IF c = CmdCheckoutMaster THEN
            IF master \in DOMAIN st.repo
            THEN done([st EXCEPT !.current = master], <<>>)
            ELSE fail(OutputFatal)
        ELSE IF c = CmdBranch THEN
            done(st, BranchLines(Sorted(DOMAIN st.repo), st.current))
        ELSE IF c.argv = CmdBranchD(NoBranch).argv THEN
            IF c.branch \in DOMAIN st.repo /\ c.branch # st.current
            THEN done([st EXCEPT !.repo =
                          [b \in DOMAIN st.repo \ {c.branch} |-> st.repo[b]]], <<>>)
            ELSE fail(OutputFatal)
        ELSE IF c.argv = CmdCheckoutB(NoBranch).argv THEN
            IF c.branch \notin DOMAIN st.repo
            THEN done([st EXCEPT
                          !.repo = [b \in DOMAIN st.repo \cup {c.branch} |->
                                      IF b = c.branch THEN FreshBranch ELSE st.repo[b]],
                          !.current = c.branch], <<>>)
            ELSE fail(OutputFatal)
        ELSE IF c = CmdCommit THEN
            IF st.dirty
            THEN done([st EXCEPT !.dirty = FALSE,
                                 !.repo[st.current].ahead = @ + 1], <<>>)
            ELSE fail(OutputCleanTree)
        ELSE done(st, <<>>)   \* cl upload, cl issue: no effect on the work tree

\* The running state of a handler: work tree, commands issued, pending exception,
\* output of the last command, number of commands run, the patch-set counter,
\* the exception a try body left pending when its finally clause began, and
\* every CommandFailedException raised so far, caught or not.
Ctx(st, patch_set) ==
    [st |-> st, log |-> <<>>, exc |-> NoExc, out |-> <<>>, n |-> 0, ps |-> patch_set,
     body |-> NoExc, failed |-> <<>>]

\* shell_utils.run(cmd): runs the command; a failure raises CommandFailedException
\* carrying the output.  Nothing runs while an exception is propagating.
\* fails: the positions, among the commands this handler runs, that break.
Step(ctx, c, fails) ==
    IF ctx.exc # NoExc THEN ctx
    ELSE LET r == GitRun(ctx.st, c, (ctx.n + 1) \in fails)
         IN  [ctx EXCEPT !.st = r.st,
                         !.log = Append(@, c),
                         !.exc = IF r.ok THEN NoExc ELSE CommandFailed(c, r.out),
                         !.out = r.out,
                         !.n = @ + 1,
                         !.failed = IF r.ok THEN @
                                    ELSE Append(@, CommandFailed(c, r.out))]

\* GitBranch.__enter__
GitBranch_enter(slf, st, fails) ==
    LET c1 == Step(Ctx(st, slf._patch_set), CmdReset, fails)
        c2 == Step(c1, CmdCheckoutMaster, fails)
        c3 == Step(c2, CmdBranch, fails)
        c4 == IF c3.exc = NoExc /\ IsSubstring(slf._branch_name, c3.out)
              THEN Step(c3, CmdBranchD(slf._branch_name), fails)
              ELSE c3
    IN  Step(c4, CmdCheckoutB(slf._branch_name), fails)

\* Mutant of commit_and_upload: the counter is incremented before the commit, so
\* a call aborted by its commit has already counted a patch set.
commit_and_upload_counts_first(ctx, use_commit_queue, fails, issue_ok) ==
    LET c0 == [ctx EXCEPT !.ps = @ + 1]
        c1 == Step(c0, CmdCommit, fails)
        c2 == IF c1.exc # NoExc /\ IsSubstring(NothingToCommit, c1.exc.output)
              THEN [c1 EXCEPT !.exc = NoExc]
              ELSE c1
    IN  IF c2.exc # NoExc THEN c2
        ELSE LET c4 == Step(c2, CmdUpload(c2.ps, use_commit_queue), fails)
                 c5 == Step(c4, CmdIssue, fails)
             IN  IF c5.exc = NoExc /\ ~issue_ok
                 THEN [c5 EXCEPT !.exc = AttributeError]
                 ELSE c5

\* Mutant of commit_and_upload: every commit failure is tolerated.
commit_and_upload_tolerates_all(ctx, use_commit_queue, fails, issue_ok) ==
    LET c1 == Step(ctx, CmdCommit, fails)
        c2 == [c1 EXCEPT !.exc = NoExc]
        c3 == [c2 EXCEPT !.ps = @ + 1]
        c4 == Step(c3, CmdUpload(c3.ps, use_commit_queue), fails)
        c5 == Step(c4, CmdIssue, fails)
    IN  IF c5.exc = NoExc /\ ~issue_ok
        THEN [c5 EXCEPT !.exc = AttributeError]
        ELSE c5

\* GitBranch.commit_and_upload, continuing from ctx
commit_and_upload(ctx, use_commit_queue, fails, issue_ok) ==
    LET c1 == Step(ctx, CmdCommit, fails)
        c2 == IF c1.exc # NoExc /\ IsSubstring(NothingToCommit, c1.exc.output)
              THEN [c1 EXCEPT !.exc = NoExc]
              ELSE c1
    IN  IF c2.exc # NoExc THEN c2
        ELSE LET c3 == [c2 EXCEPT !.ps = @ + 1]
                 c4 == Step(c3, CmdUpload(c3.ps, use_commit_queue), fails)
                 c5 == Step(c4, CmdIssue, fails)
             IN  IF c5.exc = NoExc /\ ~issue_ok
                 THEN [c5 EXCEPT !.exc = AttributeError]
                 ELSE c5

\* Mutant of GitBranch_exit: the upload is attempted whatever exc_type is.
GitBranch_exit_ignores_exc_type(slf, st, block_ok, fails, issue_ok) ==
    LET c0 == Ctx(st, slf._patch_set)
    IN  IF ~slf._upload THEN c0
        ELSE LET body == commit_and_upload(c0, slf._commit_queue, fails, issue_ok)
                 f1 == Step([body EXCEPT !.exc = NoExc], CmdCheckoutMaster, fails)
                 f2 == IF slf._delete_when_finished
                       THEN Step(f1, CmdBranchD(slf._branch_name), fails)
                       ELSE f1
             IN  [f2 EXCEPT !.exc = IF f2.exc # NoExc THEN f2.exc ELSE body.exc,
                            !.body = body.exc]

\* GitBranch.__exit__; block_ok: exc_type is None.  The exception left in the
\* result is the one __exit__ itself raises (the block's own exception, if any,
\* goes on propagating because __exit__ returns None).
GitBranch_exit(slf, st, block_ok, fails, issue_ok) ==
    LET c0 == Ctx(st, slf._patch_set)
    IN  IF ~slf._upload THEN c0
        ELSE LET body == IF block_ok
                         THEN commit_and_upload(c0, slf._commit_queue, fails, issue_ok)
                         ELSE c0
                 f1 == Step([body EXCEPT !.exc = NoExc], CmdCheckoutMaster, fails)
                 f2 == IF slf._delete_when_finished
                       THEN Step(f1, CmdBranchD(slf._branch_name), fails)
                       ELSE f1
             IN  [f2 EXCEPT !.exc = IF f2.exc # NoExc THEN f2.exc ELSE body.exc,
                            !.body = body.exc]

WorkTree == [repo |-> repo, current |-> current, dirty |-> dirty]

NoOp == [name |-> "none", from |-> 0, pre |-> [repo |-> <<>>, current |-> master,
         dirty |-> FALSE], ps |-> 0, block_ok |-> TRUE, exc |-> NoExc, body |-> NoExc,
         raised |-> NoExc, failed |-> <<>>]

\* The local repositories a GitBranch may be created in.
InitialRepos ==
    {[b \in {master} \cup S |-> IF b = master THEN FreshBranch ELSE StaleBranch] :
        S \in SUBSET {tmp, tmp2}}

\* GitBranch.__init__
GitBranch_init(branch_name, upload, commit_queue, delete_when_finished) ==
    [_branch_name |-> branch_name,
     _upload |-> upload,
     _commit_queue |-> commit_queue,
     _patch_set |-> 0,
     _delete_when_finished |-> delete_when_finished]

GsIdle ==
    /\ store = <<>>
    /\ call = [name |-> "none"]
    /\ ret = [value |-> <<>>, exc |-> [type |-> "None", context |-> ""]]
    /\ nops = 0
    /\ disk = [dirs |-> {}, files |-> <<>>, handles |-> {}]

InitGit ==
    /\ \E n \in WorkBranchNames, u \in BOOLEAN, q \in BOOLEAN, d \in BOOLEAN :
          self = GitBranch_init(n, u, q, d)
    /\ repo \in InitialRepos
    /\ current \in DOMAIN repo
    /\ dirty \in BOOLEAN
    /\ pc = "init"
    /\ cmds = <<>>
    /\ op = NoOp
    /\ GsIdle

\* Applies the outcome ctx of handler `name` to the state.
Finish(name, ctx, block_ok, next_pc) ==
    /\ repo' = ctx.st.repo
    /\ current' = ctx.st.current
    /\ dirty' = ctx.st.dirty
    /\ self' = [self EXCEPT !._patch_set = ctx.ps]
    /\ cmds' = cmds \o ctx.log
    /\ op' = [name |-> name, from |-> Len(cmds), pre |-> WorkTree,
              ps |-> self._patch_set, block_ok |-> block_ok, exc |-> ctx.exc,
              body |-> ctx.body,
              raised |-> IF ctx.exc # NoExc THEN ctx.exc
                         ELSE IF block_ok THEN NoExc ELSE BlockError,
              failed |-> ctx.failed]
    /\ pc' = next_pc
    /\ UNCHANGED gsVars

\* `with GitBranch(...) as b:` enters the scope
Enter ==
    /\ pc = "init"
    /\ \E fails \in SUBSET (1..5) :
          LET ctx == GitBranch_enter(self, WorkTree, fails)
          IN  Finish("__enter__", ctx, TRUE,
                     IF ctx.exc = NoExc THEN "in_block" ELSE "enter_failed")

\* The body of the with block changes files of the work tree.
Edit ==
    /\ pc = "in_block"
    /\ ~dirty
    /\ dirty' = TRUE
    /\ UNCHANGED <<self, repo, current, pc, cmds, op>>
    /\ UNCHANGED gsVars

\* The body of the with block calls b.commit_and_upload(...)
CommitAndUpload ==
    /\ pc = "in_block"
    /\ Cardinality({i \in DOMAIN cmds : cmds[i] = CmdCommit}) < MaxBlockCalls
    /\ \E q \in BOOLEAN, fails \in SUBSET (1..3), issue_ok \in BOOLEAN :
          Finish("commit_and_upload",
                 commit_and_upload(Ctx(WorkTree, self._patch_set), q, fails, issue_ok),
                 TRUE, "in_block")

\* The with block ends, normally (block_ok) or with an exception.
Exit ==
    /\ pc = "in_block"
    /\ \E block_ok \in BOOLEAN, fails \in SUBSET (1..5), issue_ok \in BOOLEAN :
          Finish("__exit__",
                 GitBranch_exit(self, WorkTree, block_ok, fails, issue_ok),
                 block_ok, "exited")

NextGit == Enter \/ Edit \/ CommitAndUpload \/ Exit

SpecGit == InitGit /\ [][NextGit]_vars

-----------------------------------------------------------------------------
(* gs_utils.py: class GSUtils                                              *)

\* PERMISSION_NONE is Python's None
None == "None"
PERMISSION_NONE == None
PERMISSION_OWNER == "FULL_CONTROL"
PERMISSION_READ == "READ"
PERMISSION_WRITE == "WRITE"
Permissions == {PERMISSION_NONE, PERMISSION_OWNER, PERMISSION_READ, PERMISSION_WRITE}

ID_TYPE_GROUP_BY_DOMAIN == "GroupByDomain"
ID_TYPE_GROUP_BY_EMAIL == "GroupByEmail"
ID_TYPE_GROUP_BY_ID == "GroupById"
ID_TYPE_USER_BY_EMAIL == "UserByEmail"
ID_TYPE_USER_BY_ID == "UserById"
IdTypes ==
    {ID_TYPE_GROUP_BY_DOMAIN, ID_TYPE_GROUP_BY_EMAIL, ID_TYPE_GROUP_BY_ID,
     ID_TYPE_USER_BY_EMAIL, ID_TYPE_USER_BY_ID}

FIELD_BY_ID_TYPE ==
    [t \in IdTypes |->
        CASE t = ID_TYPE_GROUP_BY_DOMAIN -> "domain"
          [] t = ID_TYPE_GROUP_BY_EMAIL -> "email_address"
          [] t = ID_TYPE_GROUP_BY_ID -> "id"
          [] t = ID_TYPE_USER_BY_EMAIL -> "email_address"
          [] t = ID_TYPE_USER_BY_ID -> "id"]

\* Values used to identify users and groups.
IdValues == {"chromium.org", "google.com"}

\* acl.Entry(type=..., permission=..., <field>=id_value): the scope fields that
\* are not given stay None.
Entry(type, permission, field, id_value) ==
    [type |-> type,
     permission |-> permission,
     domain |-> IF field = "domain" THEN id_value ELSE None,
     email_address |-> IF field = "email_address" THEN id_value ELSE None,
     id |-> IF field = "id" THEN id_value ELSE None]

\* The ACL a freshly written object gets (policy=predefined_acl, None: the
\* bucket's default object ACL): full control for the owner.
OwnerEntry == Entry(ID_TYPE_USER_BY_ID, PERMISSION_OWNER, "id", "owner")
DefaultAcl == <<OwnerEntry>>

NoErr == [type |-> "None", context |-> ""]
BotoServerError(context) == [type |-> "BotoServerError", context |-> context]
AssertionError == [type |-> "AssertionError", context |-> ""]

\* The running state of a GSUtils call: the bucket, the number of requests made
\* to the server, the request that the server answers with an error (0: none),
\* the pending exception, the value returned and the local file system.
GsCtx(st, fail_at) ==
    [store |-> st, n |-> 0, fail_at |-> fail_at, exc |-> NoErr, ret |-> <<>>,
     disk |-> disk]

\* One request to the server; context is what the except clause around the
\* request appends to e.body ("" when the request sits in no try block).
Request(ctx, context) ==
    IF ctx.exc # NoErr THEN ctx
    ELSE IF ctx.n + 1 = ctx.fail_at
         THEN [ctx EXCEPT !.n = @ + 1, !.exc = BotoServerError(context)]
         ELSE [ctx EXCEPT !.n = @ + 1]

\* GSUtils._connect_to_bucket
connect_to_bucket(ctx) == Request(ctx, "while connecting to bucket")

\* b.get_acl(key_name=path): the server has no ACL for a missing object
BucketGetAcl(ctx, path) ==
    LET c == Request(ctx, "")
    IN  IF c.exc = NoErr /\ path \notin DOMAIN c.store
        THEN [c EXCEPT !.exc = BotoServerError("")]
        ELSE c

\* [entry for entry in entry_list if entry.scope.type == id_type and
\*  getattr(entry.scope, field) == id_value], as the positions in the list
MatchingEntries(entry_list, id_type, field, id_value) ==
    {i \in DOMAIN entry_list :
        entry_list[i].type = id_type /\ entry_list[i][field] = id_value}

\* entry_list.remove(entry_list[i])
RemoveAt(entry_list, i) ==
    SubSeq(entry_list, 1, i - 1) \o SubSeq(entry_list, i + 1, Len(entry_list))

Min(S) == CHOOSE x \in S : \A y \in S : x <= y

\* Mutant of get_acl: entries are matched on the identifying field alone.
get_acl_ignores_type(ctx, path, id_type, id_value) ==
    LET field == FIELD_BY_ID_TYPE[id_type]
        c1 == connect_to_bucket(ctx)
        c2 == BucketGetAcl(c1, path)
    IN  IF c2.exc # NoErr THEN c2
        ELSE LET matching_entries ==
                     {i \in DOMAIN c2.store[path].acl :
                         c2.store[path].acl[i][field] = id_value}
             IN  IF matching_entries # {}
                 THEN IF Cardinality(matching_entries) = 1
                      THEN [c2 EXCEPT !.ret =
                               c2.store[path].acl[Min(matching_entries)].permission]
                      ELSE [c2 EXCEPT !.exc = AssertionError]
                 ELSE [c2 EXCEPT !.ret = PERMISSION_NONE]

\* GSUtils.get_acl
get_acl(ctx, path, id_type, id_value) ==
    LET field == FIELD_BY_ID_TYPE[id_type]
        c1 == connect_to_bucket(ctx)
        c2 == BucketGetAcl(c1, path)
    IN  IF c2.exc # NoErr THEN c2
        ELSE LET matching_entries ==
                     MatchingEntries(c2.store[path].acl, id_type, field, id_value)
             IN  IF matching_entries # {}
                 THEN IF Cardinality(matching_entries) = 1
                      THEN [c2 EXCEPT !.ret =
                               c2.store[path].acl[Min(matching_entries)].permission]
                      ELSE [c2 EXCEPT !.exc = AssertionError]
                 ELSE [c2 EXCEPT !.ret = PERMISSION_NONE]

\* Mutant of set_acl: PERMISSION_NONE is treated as "nothing to do", the
\* existing entry is removed only when a new one replaces it.
set_acl_none_keeps_entry(ctx, path, id_type, id_value, permission) ==
    LET field == FIELD_BY_ID_TYPE[id_type]
        c1 == connect_to_bucket(ctx)
        c2 == BucketGetAcl(c1, path)
    IN  IF c2.exc # NoErr THEN c2
        ELSE LET entry_list == c2.store[path].acl
                 matching_entries == MatchingEntries(entry_list, id_type, field, id_value)
             IN  IF Cardinality(matching_entries) > 1
                 THEN [c2 EXCEPT !.exc = AssertionError]
                 ELSE LET added ==
                              IF permission # PERMISSION_NONE
                              THEN Append(IF matching_entries # {}
                                          THEN RemoveAt(entry_list, Min(matching_entries))
                                          ELSE entry_list,
                                          Entry(id_type, permission, field, id_value))
                              ELSE entry_list
                          c3 == Request(c2, "")
                      IN  IF c3.exc # NoErr THEN c3
                          ELSE [c3 EXCEPT !.store[path].acl = added]

\* Mutant of set_acl: the new entry is appended without removing the old one.
set_acl_keeps_old_entry(ctx, path, id_type, id_value, permission) ==
    LET field == FIELD_BY_ID_TYPE[id_type]
        c1 == connect_to_bucket(ctx)
        c2 == BucketGetAcl(c1, path)
    IN  IF c2.exc # NoErr THEN c2
        ELSE LET entry_list == c2.store[path].acl
                 added == IF permission # PERMISSION_NONE
                          THEN Append(entry_list,
                                      Entry(id_type, permission, field, id_value))
                          ELSE entry_list
                 c3 == Request(c2, "")
             IN  IF c3.exc # NoErr THEN c3
                 ELSE [c3 EXCEPT !.store[path].acl = added]

\* Mutant of set_acl: the entries to replace are matched on the identifying
\* field alone.
set_acl_ignores_type(ctx, path, id_type, id_value, permission) ==
    LET field == FIELD_BY_ID_TYPE[id_type]
        c1 == connect_to_bucket(ctx)
        c2 == BucketGetAcl(c1, path)
    IN  IF c2.exc # NoErr THEN c2
        ELSE LET entry_list == c2.store[path].acl
                 matching_entries ==
                     {i \in DOMAIN entry_list : entry_list[i][field] = id_value}
             IN  IF Cardinality(matching_entries) > 1
                 THEN [c2 EXCEPT !.exc = AssertionError]
                 ELSE LET removed ==
                              IF matching_entries # {}
                              THEN RemoveAt(entry_list, Min(matching_entries))
                              ELSE entry_list
                          added ==
                              IF permission # PERMISSION_NONE
                              THEN Append(removed,
                                          Entry(id_type, permission, field, id_value))
                              ELSE removed
                          c3 == Request(c2, "")
                      IN  IF c3.exc # NoErr THEN c3
                          ELSE [c3 EXCEPT !.store[path].acl = added]

\* GSUtils.set_acl
set_acl(ctx, path, id_type, id_value, permission) ==
    LET field == FIELD_BY_ID_TYPE[id_type]
        c1 == connect_to_bucket(ctx)
        c2 == BucketGetAcl(c1, path)
    IN  IF c2.exc # NoErr THEN c2
        ELSE LET entry_list == c2.store[path].acl
                 matching_entries == MatchingEntries(entry_list, id_type, field, id_value)
             IN  IF Cardinality(matching_entries) > 1
                 THEN [c2 EXCEPT !.exc = AssertionError]
                 ELSE LET removed ==
                              IF matching_entries # {}
                              THEN RemoveAt(entry_list, Min(matching_entries))
                              ELSE entry_list
                          added ==
                              IF permission # PERMISSION_NONE
                              THEN Append(removed,
                                          Entry(id_type, permission, field, id_value))
                              ELSE removed
                          \* b.set_acl(acl_or_str=acls, key_name=path)
                          c3 == Request(c2, "")
                      IN  IF c3.exc # NoErr THEN c3
                          ELSE [c3 EXCEPT !.store[path].acl = added]

\* How many GSUtils calls a run makes on the ACLs.
MaxAclCalls == 2

\* The largest request number, within one call, at which the server may fail.
MaxFailAt == 2

objA == <<"a">>
objB == <<"a", "/", "b">>

\* The identifier types the calls of a run draw from.
AclIdTypes == {ID_TYPE_GROUP_BY_DOMAIN, ID_TYPE_GROUP_BY_EMAIL, ID_TYPE_USER_BY_EMAIL}

\* ACLs that objA may carry when the run starts: at most one entry per identifier.
InitialAcls ==
    {DefaultAcl,
     <<OwnerEntry,
       Entry(ID_TYPE_GROUP_BY_EMAIL, PERMISSION_READ, "email_address", "google.com")>>,
     <<Entry(ID_TYPE_USER_BY_EMAIL, PERMISSION_WRITE, "email_address", "google.com"),
       OwnerEntry,
       Entry(ID_TYPE_GROUP_BY_DOMAIN, PERMISSION_READ, "domain", "google.com")>>}

Object(content, acl) == [content |-> content, acl |-> acl]

GitIdle ==
    /\ self = GitBranch_init(tmp, FALSE, FALSE, FALSE)
    /\ repo = [b \in {master} |-> FreshBranch]
    /\ current = master
    /\ dirty = FALSE
    /\ pc = "init"
    /\ cmds = <<>>
    /\ op = NoOp

NoCall == [name |-> "none"]
NoRet == [value |-> <<>>, exc |-> NoErr]

\* A local file system with nothing below the current directory.
EmptyDisk == [dirs |-> {}, files |-> <<>>, handles |-> {}]

InitAcl ==
    /\ \E acl \in InitialAcls :
          store = (objA :> Object("c1", acl)) @@ (objB :> Object("c2", DefaultAcl))
    /\ call = NoCall
    /\ ret = NoRet
    /\ nops = 0
    /\ disk = EmptyDisk
    /\ GitIdle

\* Records the outcome ctx of a GSUtils call.
Return(c, ctx) ==
    /\ store' = ctx.store
    /\ call' = c
    /\ ret' = [value |-> ctx.ret, exc |-> ctx.exc]
    /\ nops' = nops + 1
    /\ disk' = ctx.disk
    /\ UNCHANGED gitVars

\* An uncaught exception ends the run.
Running(max) == nops < max /\ ret.exc = NoErr

SetAcl ==
    /\ Running(MaxAclCalls)
    /\ \E path \in DOMAIN store, id_type \in AclIdTypes, id_value \in IdValues,
          permission \in Permissions, fail_at \in 0..MaxFailAt :
          Return([name |-> "set_acl", path |-> path, id_type |-> id_type,
                  id_value |-> id_value, permission |-> permission, pre |-> store],
                 set_acl(GsCtx(store, fail_at), path, id_type, id_value, permission))

GetAcl ==
    /\ Running(MaxAclCalls)
    /\ \E path \in DOMAIN store, id_type \in AclIdTypes, id_value \in IdValues,
          fail_at \in 0..MaxFailAt :
          Return([name |-> "get_acl", path |-> path, id_type |-> id_type,
                  id_value |-> id_value, permission |-> None, pre |-> store],
                 get_acl(GsCtx(store, fail_at), path, id_type, id_value))

NextAcl == SetAcl \/ GetAcl

SpecAcl == InitAcl /\ [][NextAcl]_vars

-----------------------------------------------------------------------------
(* gs_utils.py: uploading and listing                                      *)

Slash == <<"/">>
HasSlash(s) == \E i \in DOMAIN s : s[i] = "/"

\* Mutant of posixpath_join: the separator is inserted unconditionally.
posixpath_join_always_slash(a, b) == a \o Slash \o b

\* posixpath.join(a, b)
posixpath_join(a, b) ==
    IF StartsWith(b, Slash) THEN b
    ELSE IF a = <<>> \/ EndsWithSlash(a) THEN a \o b
    ELSE a \o Slash \o b

\* Mutant of Put: an object that exists already is left as it is.
PutNoClobber(st, key, content) ==
    IF key \in DOMAIN st THEN st
    ELSE [k \in DOMAIN st \cup {key} |->
            IF k = key THEN Object(content, DefaultAcl) ELSE st[k]]

\* item.set_contents_from_filename(filename, policy=predefined_acl) on the
\* bucket: the object is created or replaced, with the ACL of the policy.
Put(st, key, content) ==
    [k \in DOMAIN st \cup {key} |->
        IF k = key THEN Object(content, DefaultAcl) ELSE st[k]]

\* The upload request of upload_file and upload_dir_contents (the try block
\* around set_contents_from_filename).
SetContents(ctx, key, content) ==
    LET c == Request(ctx, "while uploading")
    IN  IF ctx.exc = NoErr /\ c.exc = NoErr
        THEN [c EXCEPT !.store = Put(@, key, content)]
        ELSE c

\* Mutant of ApplyAclList: only the first entry of the list is applied.
ApplyAclList_first_only(ctx, path, acl_list) ==
    IF acl_list = <<>> \/ ctx.exc # NoErr THEN ctx
    ELSE set_acl(ctx, path, Head(acl_list)[1], Head(acl_list)[2], Head(acl_list)[3])

\* for (id_type, id_value, permission) in fine_grained_acl_list or []:
\*   self.set_acl(...)
RECURSIVE ApplyAclList(_, _, _)
ApplyAclList(ctx, path, acl_list) ==
    IF acl_list = <<>> \/ ctx.exc # NoErr THEN ctx
    ELSE ApplyAclList(set_acl(ctx, path, Head(acl_list)[1], Head(acl_list)[2],
                              Head(acl_list)[3]),
                      path, Tail(acl_list))

\* GSUtils.upload_file; content stands for the file at source_path
upload_file(ctx, content, dest_path, fine_grained_acl_list) ==
    LET c1 == connect_to_bucket(ctx)
        c2 == SetContents(c1, dest_path, content)
    IN  ApplyAclList(c2, dest_path, fine_grained_acl_list)

\* A local directory is a function from the names in it to files and directories.
File(content) == [kind |-> "file", content |-> content, children |-> <<>>]
Dir(children) == [kind |-> "dir", content |-> "", children |-> children]

\* GSUtils.upload_dir_contents; source_dir is the local directory (its tree).
\* UploadEntries is the loop over sorted(os.listdir(source_dir)).
RECURSIVE upload_dir_contents(_, _, _, _)
RECURSIVE UploadEntries(_, _, _, _, _)
UploadEntries(ctx, source_dir, names, dest_dir, fine_grained_acl_list) ==
    IF names = <<>> \/ ctx.exc # NoErr THEN ctx
    ELSE LET filename == Head(names)
             local == source_dir[filename]
             dest_path == posixpath_join(dest_dir, filename)
             done ==
                 IF local.kind = "dir"
                 THEN upload_dir_contents(ctx, local.children, dest_path,
                                          fine_grained_acl_list)
                 ELSE ApplyAclList(SetContents(ctx, dest_path, local.content),
                                   dest_path, fine_grained_acl_list)
         IN  UploadEntries(done, source_dir, Tail(names), dest_dir,
                           fine_grained_acl_list)

\* Mutant of upload_dir_contents: the names are taken in descending order.
upload_dir_contents_descending(ctx, source_dir, dest_dir, fine_grained_acl_list) ==
    LET names == Sorted(DOMAIN source_dir)
    IN  UploadEntries(connect_to_bucket(ctx), source_dir,
                      [i \in DOMAIN names |-> names[Len(names) + 1 - i]],
                      dest_dir, fine_grained_acl_list)

upload_dir_contents(ctx, source_dir, dest_dir, fine_grained_acl_list) ==
    UploadEntries(connect_to_bucket(ctx), source_dir, Sorted(DOMAIN source_dir),
                  dest_dir, fine_grained_acl_list)

\* BucketListResultSet(bucket, prefix, delimiter='/'): in name order, a Key for
\* every object whose name starts with prefix and has no '/' after it, and a
\* Prefix for every distinct name, cut after the first '/' that follows prefix,
\* of the other objects that start with prefix.
FirstSlashFrom(s, n) == Min({i \in DOMAIN s : i > n /\ s[i] = "/"})

BucketListResultSet(st, prefix) ==
    LET under == {k \in DOMAIN st : StartsWith(k, prefix)}
        keys == {k \in under : ~HasSlash(SliceFrom(k, Len(prefix)))}
        prefixes == {SubSeq(k, 1, FirstSlashFrom(k, Len(prefix))) : k \in under \ keys}
        names == Sorted(keys \cup prefixes)
    IN  [i \in DOMAIN names |->
            [t |-> IF names[i] \in keys THEN "Key" ELSE "Prefix", name |-> names[i]]]

\* The loop of list_bucket_contents over the lister.
RECURSIVE CollectItems(_, _, _, _)
CollectItems(items, prefix_length, dirs, files) ==
    IF items = <<>> THEN <<dirs, files>>
    ELSE LET item == Head(items)
         IN  IF item.t = "Key"
             THEN CollectItems(Tail(items), prefix_length, dirs,
                               Append(files, SliceFrom(item.name, prefix_length)))
             ELSE CollectItems(Tail(items), prefix_length,
                               Append(dirs, SliceFromToLast(item.name, prefix_length)),
                               files)

\* subdir=None
NoSubdir == <<"None">>

\* Mutant of list_bucket_contents: prefix_length is taken before the '/' is added.
list_bucket_contents_short_prefix(ctx, subdir) ==
    LET prefix0 == IF subdir = NoSubdir THEN <<>> ELSE subdir
        prefix == IF prefix0 # <<>> /\ ~EndsWithSlash(prefix0)
                  THEN prefix0 \o Slash ELSE prefix0
        prefix_length == Len(prefix0)
        c1 == connect_to_bucket(ctx)
        c2 == Request(c1, "")
    IN  IF c2.exc # NoErr THEN c2
        ELSE [c2 EXCEPT !.ret =
                 CollectItems(BucketListResultSet(c2.store, prefix), prefix_length,
                              <<>>, <<>>)]

\* GSUtils.list_bucket_contents
list_bucket_contents(ctx, subdir) ==
    LET prefix0 == IF subdir = NoSubdir THEN <<>> ELSE subdir
        prefix == IF prefix0 # <<>> /\ ~EndsWithSlash(prefix0)
                  THEN prefix0 \o Slash ELSE prefix0
        prefix_length == IF prefix # <<>> THEN Len(prefix) ELSE 0
        c1 == connect_to_bucket(ctx)
        \* iterating the lister sends the listing request
        c2 == Request(c1, "")
    IN  IF c2.exc # NoErr THEN c2
        ELSE [c2 EXCEPT !.ret =
                 CollectItems(BucketListResultSet(c2.store, prefix), prefix_length,
                              <<>>, <<>>)]

\* How many GSUtils calls a run makes on the bucket's objects.
MaxStoreCalls == 2

fa == <<"a">>
fb == <<"b">>

\* The local directories handed to upload_dir_contents: empty; one file; two
\* files; a/b; and a, b/a, b/b/a.
LocalTrees ==
    {<<>>,
     (fa :> File("c1")),
     (fa :> File("c2")) @@ (fb :> File("c1")),
     (fa :> Dir((fb :> File("c1")))),
     (fa :> File("c1"))
        @@ (fb :> Dir((fa :> File("c2")) @@ (fb :> Dir((fa :> File("c1"))))))}

\* dest_dir of upload_dir_contents: '', 'a', 'a/', 'b/a'
DestDirs == {<<>>, <<"a">>, <<"a", "/">>, <<"b", "/", "a">>}

\* dest_path of upload_file: 'a', 'a/b', 'a/'
UploadPaths == {<<"a">>, <<"a", "/", "b">>, <<"a", "/">>}

\* subdir of list_bucket_contents: None, '', 'a', 'a/', 'b', 'b/', 'b/a'
ListSubdirs ==
    {NoSubdir, <<>>, <<"a">>, <<"a", "/">>, <<"b">>, <<"b", "/">>, <<"b", "/", "a">>}

Contents == {"c1", "c2"}

\* fine_grained_acl_list: None; one entry; two entries for two identifiers that
\* share the id_value.
AclLists ==
    {<<>>,
     <<<<ID_TYPE_GROUP_BY_DOMAIN, "chromium.org", PERMISSION_READ>>>>,
     <<<<ID_TYPE_GROUP_BY_EMAIL, "google.com", PERMISSION_READ>>,
       <<ID_TYPE_USER_BY_EMAIL, "google.com", PERMISSION_WRITE>>>>}

\* What the bucket holds when the run starts: nothing, or a/b and b/a/a.
InitialStores ==
    {<<>>,
     (<<"a", "/", "b">> :> Object("c2", DefaultAcl))
        @@ (<<"b", "/", "a", "/", "a">> :> Object("c1", DefaultAcl))}

InitStore ==
    /\ store \in InitialStores
    /\ call = NoCall
    /\ ret = NoRet
    /\ nops = 0
    /\ disk = EmptyDisk
    /\ GitIdle

UploadFile ==
    /\ Running(MaxStoreCalls)
    /\ \E content \in Contents, dest_path \in UploadPaths, acl_list \in AclLists,
          fail_at \in 0..MaxFailAt :
          Return([name |-> "upload_file", content |-> content, dest_path |-> dest_path,
                  acl_list |-> acl_list, pre |-> store],
                 upload_file(GsCtx(store, fail_at), content, dest_path, acl_list))

UploadDirContents ==
    /\ Running(MaxStoreCalls)
    /\ \E source_dir \in LocalTrees, dest_dir \in DestDirs, acl_list \in AclLists,
          fail_at \in 0..MaxFailAt :
          Return([name |-> "upload_dir_contents", source_dir |-> source_dir,
                  dest_dir |-> dest_dir, acl_list |-> acl_list, pre |-> store],
                 upload_dir_contents(GsCtx(store, fail_at), source_dir, dest_dir,
                                     acl_list))

ListBucketContents ==
    /\ Running(MaxStoreCalls)
    /\ \E subdir \in ListSubdirs, fail_at \in 0..MaxFailAt :
          Return([name |-> "list_bucket_contents", subdir |-> subdir, pre |-> store],
                 list_bucket_contents(GsCtx(store, fail_at), subdir))

NextStore == UploadFile \/ UploadDirContents \/ ListBucketContents

SpecStore == InitStore /\ [][NextStore]_vars

-----------------------------------------------------------------------------
(* gs_utils.py: downloading and deleting                                   *)

OSError == [type |-> "OSError", context |-> ""]
IOError == [type |-> "IOError", context |-> ""]

\* A local path without its trailing '/'.
StripSlash(p) == IF EndsWithSlash(p) THEN SubSeq(p, 1, Len(p) - 1) ELSE p

Max(S) == CHOOSE x \in S : \A y \in S : x >= y

\* os.path.dirname(p)
os_path_dirname(p) ==
    LET slashes == {i \in DOMAIN p : p[i] = "/"}
    IN  IF slashes = {} THEN <<>> ELSE StripSlash(SubSeq(p, 1, Max(slashes)))

\* The directories above local path p.
Ancestors(p) == {SubSeq(p, 1, i - 1) : i \in {j \in DOMAIN p : j > 1 /\ p[j] = "/"}}

\* _makedirs_if_needed(path): os.makedirs, with EEXIST ignored ('' is no path;
\* a file in place of a directory above path is ENOTDIR).
makedirs_if_needed(ctx, path) ==
    LET p == StripSlash(path)
    IN  IF ctx.exc # NoErr THEN ctx
        ELSE IF p = <<>> THEN [ctx EXCEPT !.exc = OSError]
        ELSE IF Ancestors(p) \cap DOMAIN ctx.disk.files # {}
             THEN [ctx EXCEPT !.exc = OSError]
        ELSE IF p \in ctx.disk.dirs \/ p \in DOMAIN ctx.disk.files THEN ctx
        ELSE [ctx EXCEPT !.disk.dirs = @ \cup {p} \cup Ancestors(p)]

WriteFile(d, path, content) == [d EXCEPT !.files = (path :> content) @@ @]

\* open(dest_path, 'w'): creates or truncates the file
OpenForWrite(ctx, dest_path) ==
    LET parent == os_path_dirname(dest_path)
    IN  IF ctx.exc # NoErr THEN ctx
        ELSE IF \/ dest_path = <<>>
                \/ EndsWithSlash(dest_path)
                \/ dest_path \in ctx.disk.dirs
                \/ (parent # <<>> /\ parent \notin ctx.disk.dirs)
             THEN [ctx EXCEPT !.exc = IOError]
        ELSE [ctx EXCEPT !.disk = [WriteFile(@, dest_path, "") EXCEPT
                                      !.handles = @ \cup {dest_path}]]

\* Leaving `with open(dest_path, 'w') as f:`, normally or by an exception,
\* closes f.
Close(ctx, dest_path) == [ctx EXCEPT !.disk.handles = @ \ {dest_path}]

\* Mutant of GetContentsToFile: the file is left as open() made it.
GetContentsToFile_writes_nothing(ctx, key, dest_path) ==
    LET c == Request(ctx, "while downloading")
    IN  IF ctx.exc # NoErr \/ c.exc # NoErr THEN c
        ELSE IF key \notin DOMAIN c.store
             THEN [c EXCEPT !.exc = BotoServerError("while downloading")]
        ELSE c

\* try: item.get_contents_to_file(fp=f) except BotoServerError ...: the server
\* answers a request for a missing object with an error.
GetContentsToFile(ctx, key, dest_path) ==
    LET c == Request(ctx, "while downloading")
    IN  IF ctx.exc # NoErr \/ c.exc # NoErr THEN c
        ELSE IF key \notin DOMAIN c.store
             THEN [c EXCEPT !.exc = BotoServerError("while downloading")]
        ELSE [c EXCEPT !.disk = WriteFile(@, dest_path, c.store[key].content)]

\* Mutant of WithOpenFile: the content is requested first and the file opened
\* once it has arrived.
WithOpenFile_request_first(ctx, key, dest_path) ==
    LET c == Request(ctx, "while downloading")
    IN  IF ctx.exc # NoErr \/ c.exc # NoErr THEN c
        ELSE IF key \notin DOMAIN c.store
             THEN [c EXCEPT !.exc = BotoServerError("while downloading")]
        ELSE LET o == OpenForWrite(c, dest_path)
             IN  IF o.exc # NoErr THEN o
                 ELSE Close([o EXCEPT !.disk =
                                WriteFile(@, dest_path, c.store[key].content)],
                            dest_path)

\* with open(dest_path, 'w') as f: try: item.get_contents_to_file(fp=f) ...
WithOpenFile(ctx, key, dest_path) ==
    Close(GetContentsToFile(OpenForWrite(ctx, dest_path), key, dest_path), dest_path)

\* GSUtils.download_file
download_file(ctx, source_path, dest_path, create_subdirs_if_needed) ==
    LET c1 == connect_to_bucket(ctx)
        c2 == IF create_subdirs_if_needed
              THEN makedirs_if_needed(c1, os_path_dirname(dest_path))
              ELSE c1
    IN  WithOpenFile(c2, source_path, dest_path)

\* GSUtils.download_dir_contents; DownloadFiles and DownloadDirs are its loops
\* over the files and the dirs that list_bucket_contents returned.
RECURSIVE download_dir_contents(_, _, _)
RECURSIVE DownloadFiles(_, _, _, _)
RECURSIVE DownloadDirs(_, _, _, _)
DownloadFiles(ctx, source_dir, dest_dir, files) ==
    IF files = <<>> \/ ctx.exc # NoErr THEN ctx
    ELSE LET filename == Head(files)
             key == posixpath_join(source_dir, filename)
             dest_path == posixpath_join(dest_dir, filename)
         IN  DownloadFiles(WithOpenFile(ctx, key, dest_path),
                           source_dir, dest_dir, Tail(files))

DownloadDirs(ctx, source_dir, dest_dir, dirs) ==
    IF dirs = <<>> \/ ctx.exc # NoErr THEN ctx
    ELSE LET dirname == Head(dirs)
         IN  DownloadDirs(download_dir_contents(ctx, posixpath_join(source_dir, dirname),
                                                posixpath_join(dest_dir, dirname)),
                          source_dir, dest_dir, Tail(dirs))

download_dir_contents(ctx, source_dir, dest_dir) ==
    LET c1 == makedirs_if_needed(ctx, dest_dir)
        c2 == connect_to_bucket(c1)
        c3 == list_bucket_contents(c2, source_dir)
    IN  IF c3.exc # NoErr THEN c3
        ELSE LET dirs == c3.ret[1]
                 files == c3.ret[2]
                 c4 == DownloadFiles([c3 EXCEPT !.ret = <<>>], source_dir, dest_dir, files)
             IN  DownloadDirs(c4, source_dir, dest_dir, dirs)

\* Mutant of Remove: everything below the name goes as well.
RemoveTree(st, key) ==
    [k \in {n \in DOMAIN st : ~StartsWith(n, key)} |-> st[k]]

\* item.delete() on the bucket
Remove(st, key) == [k \in DOMAIN st \ {key} |-> st[k]]

\* GSUtils.delete_file: the server answers the deletion of a missing object
\* with an error.
delete_file(ctx, path) ==
    LET c1 == connect_to_bucket(ctx)
        c2 == Request(c1, "while deleting")
    IN  IF c2.exc # NoErr THEN c2
        ELSE IF path \notin DOMAIN c2.store
             THEN [c2 EXCEPT !.exc = BotoServerError("while deleting")]
        ELSE [c2 EXCEPT !.store = Remove(@, path)]

\* dest_dir of download_dir_contents: 'd'
LocalDirs == {<<"d">>}

\* dest_path of download_file: 'f', 'd/f'
LocalPaths == {<<"f">>, <<"d", "/", "f">>}

\* The call made before this one, and whether it returned normally.
LastCall ==
    [call |-> [f \in DOMAIN call \ {"prev"} |-> call[f]], ok |-> ret.exc = NoErr]

InitSync ==
    /\ store \in InitialStores
    /\ call = NoCall
    /\ ret = NoRet
    /\ nops = 0
    /\ disk = EmptyDisk
    /\ GitIdle

DeleteFile ==
    /\ Running(MaxStoreCalls)
    /\ \E path \in UploadPaths \cup DOMAIN store, fail_at \in 0..MaxFailAt :
          Return([name |-> "delete_file", path |-> path, pre |-> store],
                 delete_file(GsCtx(store, fail_at), path))

DownloadFile ==
    /\ Running(MaxStoreCalls)
    /\ \E source_path \in UploadPaths, dest_path \in LocalPaths,
          create_subdirs_if_needed \in BOOLEAN, fail_at \in 0..MaxFailAt :
          Return([name |-> "download_file", source_path |-> source_path,
                  dest_path |-> dest_path, pre |-> store, pre_disk |-> disk,
                  prev |-> LastCall],
                 download_file(GsCtx(store, fail_at), source_path, dest_path,
                               create_subdirs_if_needed))

DownloadDirContents ==
    /\ Running(MaxStoreCalls)
    /\ \E source_dir \in DestDirs, dest_dir \in LocalDirs, fail_at \in 0..MaxFailAt :
          Return([name |-> "download_dir_contents", source_dir |-> source_dir,
                  dest_dir |-> dest_dir, pre |-> store, pre_disk |-> disk,
                  prev |-> LastCall],
                 download_dir_contents(GsCtx(store, fail_at), source_dir, dest_dir))

\* Uploads, downloads, deletions and listings on one bucket.
NextSync ==
    \/ UploadFile
    \/ UploadDirContents
    \/ DownloadFile
    \/ DownloadDirContents
    \/ DeleteFile
    \/ ListBucketContents

SpecSync == InitSync /\ [][NextSync]_vars

-----------------------------------------------------------------------------
(* gs_utils.py: calls that the server cuts short                           *)

\* How many calls a run makes when any request of a call may fail.
MaxFaultyCalls == 1

\* The largest request number, within one such call, at which the server fails.
MaxRequestNo == 12

\* source_dir of the uploads: two files; a file before a directory of two
\* levels; a directory before a file.
FaultyTrees ==
    {(fa :> File("c2")) @@ (fb :> File("c1")),
     (fa :> File("c1"))
        @@ (fb :> Dir((fa :> File("c2")) @@ (fb :> Dir((fa :> File("c1")))))),
     (fa :> Dir((fb :> File("c1")))) @@ (fb :> File("c2"))}

\* dest_dir of the uploads: '', 'a'
FaultyDestDirs == {<<>>, <<"a">>}

\* A bucket with two files and a subdirectory under 'a': a/a, a/b, a/c/a.
ListedStore ==
    (<<"a", "/", "a">> :> Object("c1", DefaultAcl))
       @@ (<<"a", "/", "b">> :> Object("c2", DefaultAcl))
       @@ (<<"a", "/", "c", "/", "a">> :> Object("c1", DefaultAcl))

\* A local disk that holds files from before at the places the downloads write
\* to: f, d/f, d/a, d/b, d/c/a.
OldDisk ==
    [dirs |-> {<<"d">>, <<"d", "/", "c">>},
     files |-> [p \in {<<"f">>, <<"d", "/", "f">>, <<"d", "/", "a">>,
                       <<"d", "/", "b">>, <<"d", "/", "c", "/", "a">>} |-> "old"],
     handles |-> {}]

InitFaulty ==
    /\ store \in InitialStores \cup {ListedStore}
    /\ call = NoCall
    /\ ret = NoRet
    /\ nops = 0
    /\ disk \in {EmptyDisk, OldDisk}
    /\ GitIdle

FaultyUploadFile ==
    /\ Running(MaxFaultyCalls)
    /\ \E content \in Contents, dest_path \in UploadPaths, acl_list \in AclLists,
          fail_at \in 0..MaxRequestNo :
          Return([name |-> "upload_file", content |-> content, dest_path |-> dest_path,
                  acl_list |-> acl_list, pre |-> store, fail_at |-> fail_at],
                 upload_file(GsCtx(store, fail_at), content, dest_path, acl_list))

FaultyUploadDirContents ==
    /\ Running(MaxFaultyCalls)
    /\ \E source_dir \in FaultyTrees, dest_dir \in FaultyDestDirs, acl_list \in AclLists,
          fail_at \in 0..MaxRequestNo :
          Return([name |-> "upload_dir_contents", source_dir |-> source_dir,
                  dest_dir |-> dest_dir, acl_list |-> acl_list, pre |-> store,
                  fail_at |-> fail_at],
                 upload_dir_contents(GsCtx(store, fail_at), source_dir, dest_dir,
                                     acl_list))

FaultyDownloadFile ==
    /\ Running(MaxFaultyCalls)
    /\ \E source_path \in UploadPaths, dest_path \in LocalPaths,
          create_subdirs_if_needed \in BOOLEAN, fail_at \in 0..MaxRequestNo :
          Return([name |-> "download_file", source_path |-> source_path,
                  dest_path |-> dest_path, pre |-> store, pre_disk |-> disk,
                  prev |-> LastCall, fail_at |-> fail_at],
                 download_file(GsCtx(store, fail_at), source_path, dest_path,
                               create_subdirs_if_needed))

FaultyDownloadDirContents ==
    /\ Running(MaxFaultyCalls)
    /\ \E source_dir \in DestDirs, dest_dir \in LocalDirs, fail_at \in 0..MaxRequestNo :
          Return([name |-> "download_dir_contents", source_dir |-> source_dir,
                  dest_dir |-> dest_dir, pre |-> store, pre_disk |-> disk,
                  prev |-> LastCall, fail_at |-> fail_at],
                 download_dir_contents(GsCtx(store, fail_at), source_dir, dest_dir))

NextFaulty ==
    \/ FaultyUploadFile
    \/ FaultyUploadDirContents
    \/ FaultyDownloadFile
    \/ FaultyDownloadDirContents

SpecFaulty == InitFaulty /\ [][NextFaulty]_vars

-----------------------------------------------------------------------------
(* Properties of GitBranch                                                 *)

\* The commands the last handler issued.
OpLog == SubSeq(cmds, op.from + 1, Len(cmds))

Count(log, c) == Cardinality({i \in DOMAIN log : log[i] = c})
CountUploads(log) == Cardinality({i \in DOMAIN log : IsUpload(log[i])})

\* The log without the read-only `git branch` query.
RECURSIVE WithoutQueries(_)
WithoutQueries(log) ==
    IF log = <<>> THEN <<>>
    ELSE IF Head(log) = CmdBranch THEN WithoutQueries(Tail(log))
    ELSE <<Head(log)>> \o WithoutQueries(Tail(log))

IsPrefix(s, t) == Len(s) <= Len(t) /\ SubSeq(t, 1, Len(s)) = s

\* C1: whatever the flags and however the block ended, __exit__ has run
\* `git checkout master` once the scope has been left.
C1_ExitRunsCheckoutMaster ==
    pc = "exited" => Count(OpLog, CmdCheckoutMaster) >= 1

\* C4: the patch-set counter starts at 0; every step adds to it the number of
\* upload commands the step issued, which is 0 or 1 and is 0 for every handler
\* other than a commit_and_upload call (direct or from __exit__); so it never
\* decreases and a call aborted by its commit leaves it alone.
C4_PatchSetCounter ==
    /\ self._patch_set = 0
    /\ [][LET added == CountUploads(SubSeq(cmds', Len(cmds) + 1, Len(cmds')))
          IN  /\ self'._patch_set = self._patch_set + added
              /\ added <= 1
              /\ op'.name \notin {"commit_and_upload", "__exit__"} => added = 0
              /\ self'._patch_set >= self._patch_set]_vars

\* C4 witness: a commit_and_upload call whose upload command failed, counted.
C4_Witness ==
    /\ op.name = "commit_and_upload"
    /\ op.raised.type = "CommandFailedException"
    /\ IsUpload(op.raised.cmd)
    /\ self._patch_set = 1

\* C5: on exit with upload=True commit_and_upload (whose first command is the
\* commit) ran exactly once if the block ended normally and not at all if the
\* block raised; with upload=False no commit or upload command is issued.
C5_UploadOnExit ==
    pc = "exited" =>
        /\ (self._upload /\ op.block_ok) =>
              Count(OpLog, CmdCommit) = 1 /\ CountUploads(OpLog) <= 1
        /\ (self._upload /\ ~op.block_ok) =>
              Count(OpLog, CmdCommit) = 0 /\ CountUploads(OpLog) = 0
        /\ ~self._upload =>
              Count(OpLog, CmdCommit) = 0 /\ CountUploads(OpLog) = 0

\* C5 witness: a scope with upload=True left by an exception, cleanup done.
C5_Witness ==
    /\ pc = "exited"
    /\ self._upload
    /\ ~op.block_ok
    /\ Count(OpLog, CmdCheckoutMaster) = 1

\* C6: when the commit/upload step fails during __exit__ (upload=True), checkout
\* master and, if delete_when_finished, branch -D are still run, and the failure
\* raised to the caller is the upload step's.
C6_UploadFailurePropagates ==
    (pc = "exited" /\ self._upload /\ op.block_ok
        /\ op.body.type = "CommandFailedException") =>
        /\ Count(OpLog, CmdCheckoutMaster) = 1
        /\ self._delete_when_finished =>
              Count(OpLog, CmdBranchD(self._branch_name)) = 1
        /\ op.raised = op.body

\* C7: __enter__ issues reset --hard HEAD, checkout master, branch -D <name> only
\* when a branch <name> exists, checkout -b <name> -t origin/master, in this
\* order; when all succeed the current branch is a fresh <name> tracking
\* origin/master.
C7_EnterSequence ==
    op.name = "__enter__" =>
        /\ IsPrefix(WithoutQueries(OpLog),
                    <<CmdReset, CmdCheckoutMaster>>
                    \o (IF self._branch_name \in DOMAIN op.pre.repo
                        THEN <<CmdBranchD(self._branch_name)>> ELSE <<>>)
                    \o <<CmdCheckoutB(self._branch_name)>>)
        /\ op.exc = NoExc =>
              /\ Len(WithoutQueries(OpLog)) >= 3
              /\ current = self._branch_name
              /\ repo[self._branch_name] = FreshBranch

\* What the commit_and_upload call of the last handler left propagating.
Propagated == IF op.name = "__exit__" THEN op.body ELSE op.raised

\* The commit failures of the last handler.
CommitFailures == {i \in DOMAIN op.failed : op.failed[i].cmd = CmdCommit}

\* C15: in commit_and_upload (called from the block or from __exit__) a commit
\* failure whose output contains 'nothing to commit' is not raised and the
\* upload command is issued after it; any other commit failure is raised to the
\* caller, no upload command is issued and the patch-set counter stays.
C15_NothingToCommitTolerated ==
    \A i \in CommitFailures :
        IF IsSubstring(NothingToCommit, op.failed[i].output)
        THEN /\ Propagated # op.failed[i]
             /\ CountUploads(OpLog) = 1
             /\ self._patch_set = op.ps + 1
        ELSE /\ Propagated = op.failed[i]
             /\ CountUploads(OpLog) = 0
             /\ self._patch_set = op.ps

\* C15 witness: a commit_and_upload call on a clean tree that went on to upload
\* and returned normally.
C15_Witness ==
    /\ op.name = "commit_and_upload"
    /\ \E i \in CommitFailures : IsSubstring(NothingToCommit, op.failed[i].output)
    /\ CountUploads(OpLog) = 1
    /\ op.raised = NoExc

\* The commands of the last handler that failed.
FailedCmds == {op.failed[i].cmd : i \in DOMAIN op.failed}

\* C17: once the scope has been left, however the block ended and whatever the
\* upload flag, if no cleanup command failed then the working branch is gone
\* exactly when delete_when_finished is set.
C17_BranchDeletedIffFlag ==
    (pc = "exited"
        /\ FailedCmds \cap {CmdCheckoutMaster, CmdBranchD(self._branch_name)} = {}) =>
        (self._branch_name \notin DOMAIN repo <=> self._delete_when_finished)

\* C19: when __enter__ gets as far as testing the output of `git branch`, it
\* issues `git branch -D <branch_name>` exactly when a local branch of that very
\* name exists; branches whose names contain branch_name do not count.
C19_DeleteIffExactBranch ==
    (op.name = "__enter__" /\ Count(OpLog, CmdBranch) = 1
        /\ CmdBranch \notin FailedCmds) =>
        (Count(OpLog, CmdBranchD(self._branch_name)) = 1
            <=> self._branch_name \in DOMAIN op.pre.repo)

\* C20: in __exit__ with upload=True, a failed `git checkout master` does not
\* keep `git branch -D` from being attempted when delete_when_finished is set,
\* and a failure of the upload step reaches the caller whatever the cleanup
\* commands do.
C20_CleanupBestEffort ==
    (pc = "exited" /\ self._upload) =>
        /\ (CmdCheckoutMaster \in FailedCmds /\ self._delete_when_finished) =>
              Count(OpLog, CmdBranchD(self._branch_name)) = 1
        /\ (op.body.type = "CommandFailedException" /\ IsUpload(op.body.cmd)) =>
              op.raised = op.body

\* The upload commands issued through the instance, in order.
Uploads == SelectSeq(cmds, IsUpload)

\* The arguments that follow a `-t` in a command.
Titles(c) == {c.argv[i + 1] : i \in {j \in 1..(Len(c.argv) - 1) : c.argv[j] = "-t"}}

-----------------------------------------------------------------------------
(* Properties of GSUtils: access control                                   *)

\* The identifiers an entry list can be asked about.
Identifiers == IdTypes \X (IdValues \cup {"owner"})

\* What get_acl returns for an identifier on the current bucket, no server error.
Granted(st, path, id_type, id_value) ==
    get_acl(GsCtx(st, 0), path, id_type, id_value)

\* C2: get_acl called right after a successful set_acl(..., permission=p), for
\* the same object and identifier, returns p, whatever the ACL held before.
C2_SetThenGet ==
    (call.name = "set_acl" /\ ret.exc = NoErr) =>
        LET g == Granted(store, call.path, call.id_type, call.id_value)
        IN  g.exc = NoErr /\ g.ret = call.permission

\* C2 witness: set_acl has replaced WRITE by READ for an identifier.
C2_Witness ==
    /\ call.name = "set_acl"
    /\ ret.exc = NoErr
    /\ call.permission = PERMISSION_READ
    /\ Granted(call.pre, call.path, call.id_type, call.id_value).ret = PERMISSION_WRITE

\* C3: every object's ACL holds at most one entry per identifier, and neither
\* get_acl nor set_acl fails its `len(matching_entries) == 1` assertion.
C3_OneEntryPerIdentifier ==
    /\ \A path \in DOMAIN store : \A id \in Identifiers :
          Cardinality(MatchingEntries(store[path].acl, id[1],
                                      FIELD_BY_ID_TYPE[id[1]], id[2])) <= 1
    /\ ret.exc # AssertionError

\* C3 witness: a second set_acl has overwritten the entry the first one added,
\* on an ACL that holds entries of other identifiers as well.
C3_Witness ==
    /\ nops = 2
    /\ call.name = "set_acl"
    /\ ret.exc = NoErr
    /\ call.permission # PERMISSION_NONE
    /\ MatchingEntries(call.pre[call.path].acl, call.id_type,
                       FIELD_BY_ID_TYPE[call.id_type], call.id_value) # {}
    /\ Len(store[call.path].acl) >= 3

\* The value that identifies the user or group an entry is for.
IdentityOf(entry) ==
    CASE entry.type = ID_TYPE_GROUP_BY_DOMAIN -> entry.domain
      [] entry.type \in {ID_TYPE_GROUP_BY_EMAIL, ID_TYPE_USER_BY_EMAIL} ->
            entry.email_address
      [] OTHER -> entry.id

\* C16: get_acl returns PERMISSION_NONE when the object's ACL has no entry of
\* that id_type identifying id_value (whatever it holds for the same id_value
\* under another id_type, or for the same id_type with another id_value), and
\* otherwise the permission of the one such entry; the bucket is left as it was.
C16_GetAclNone ==
    (call.name = "get_acl" /\ ret.exc = NoErr) =>
        LET acl == call.pre[call.path].acl
            hits == {i \in DOMAIN acl :
                        acl[i].type = call.id_type /\ IdentityOf(acl[i]) = call.id_value}
        IN  /\ hits = {} => ret.value = PERMISSION_NONE
            /\ hits # {} =>
                  /\ Cardinality(hits) = 1
                  /\ \A i \in hits : ret.value = acl[i].permission
            /\ store = call.pre

\* C16 witness: PERMISSION_NONE returned for an identifier whose id_value the
\* ACL holds under another id_type that uses the same field, next to an entry
\* of the asked id_type for another id_value.
C16_Witness ==
    /\ call.name = "get_acl"
    /\ ret.exc = NoErr
    /\ ret.value = PERMISSION_NONE
    /\ LET acl == call.pre[call.path].acl
       IN  /\ \E i \in DOMAIN acl :
                 /\ acl[i].type # call.id_type
                 /\ acl[i][FIELD_BY_ID_TYPE[call.id_type]] = call.id_value
           /\ \E i \in DOMAIN acl :
                 /\ acl[i].type = call.id_type
                 /\ IdentityOf(acl[i]) # call.id_value

\* The entries of an ACL that belong to identifiers other than the given one.
EntriesOfOthers(acl, id_type, id_value) ==
    LET Other(entry) == ~(entry.type = id_type /\ IdentityOf(entry) = id_value)
    IN  SelectSeq(acl, Other)

\* C21: a set_acl call leaves, on the object at path, the entries of every other
\* identifier as they were (same entries, same permissions), leaves the content
\* of that object and every other object of the bucket untouched, and changes
\* nothing at all when it raises.
C21_SetAclFrame ==
    call.name = "set_acl" =>
        /\ DOMAIN store = DOMAIN call.pre
        /\ \A k \in DOMAIN store \ {call.path} : store[k] = call.pre[k]
        /\ store[call.path].content = call.pre[call.path].content
        /\ EntriesOfOthers(store[call.path].acl, call.id_type, call.id_value)
              = EntriesOfOthers(call.pre[call.path].acl, call.id_type, call.id_value)
        /\ ret.exc # NoErr => store = call.pre

\* C21 witness: set_acl has replaced the entry of a GROUP_BY_EMAIL identifier on
\* an ACL that holds a USER_BY_EMAIL entry for the same e-mail address.
C21_Witness ==
    /\ call.name = "set_acl"
    /\ ret.exc = NoErr
    /\ call.id_type = ID_TYPE_GROUP_BY_EMAIL
    /\ store[call.path].acl # call.pre[call.path].acl
    /\ MatchingEntries(call.pre[call.path].acl, call.id_type, "email_address",
                       call.id_value) # {}
    /\ \E i \in DOMAIN store[call.path].acl :
          /\ store[call.path].acl[i].type = ID_TYPE_USER_BY_EMAIL
          /\ store[call.path].acl[i].email_address = call.id_value

-----------------------------------------------------------------------------
(* Properties of GSUtils: uploading and listing                            *)

\* What list_bucket_contents returns on a bucket, no server error.
Listing(st, subdir) == list_bucket_contents(GsCtx(st, 0), subdir).ret

\* The directory a subdir argument names, written with its trailing '/'
\* ('' for the bucket root).
DirPrefix(subdir) ==
    IF subdir = NoSubdir \/ subdir = <<>> THEN <<>>
    ELSE IF EndsWithSlash(subdir) THEN subdir
    ELSE subdir \o Slash

\* Every piece of every object name of the bucket.
Pieces(st) ==
    UNION {{SubSeq(k, i, j) : i \in 1..(Len(k) + 1), j \in 0..Len(k)} : k \in DOMAIN st}

\* The names of the objects stored directly under directory P.
FilesUnder(st, P) == {f \in Pieces(st) : ~HasSlash(f) /\ (P \o f) \in DOMAIN st}

\* The first path components below directory P that hold deeper objects.
DirsUnder(st, P) ==
    {d \in Pieces(st) :
        ~HasSlash(d) /\ \E k \in DOMAIN st : StartsWith(k, P \o d \o Slash)}

StrictlySorted(names) ==
    \A i \in 1..(Len(names) - 1) : StrLess(names[i], names[i + 1])

\* The same subdir written the other way: with the trailing '/' added or
\* removed, None for ''.
OtherSpelling(subdir) ==
    IF subdir = NoSubdir THEN <<>>
    ELSE IF subdir = <<>> THEN NoSubdir
    ELSE IF EndsWithSlash(subdir) THEN SubSeq(subdir, 1, Len(subdir) - 1)
    ELSE subdir \o Slash

\* C8: list_bucket_contents returns (dirs, files): files are exactly the names,
\* relative to subdir, of the objects directly under it, dirs exactly the first
\* path components below it that hold deeper objects, each listed once in name
\* order; and the result is the same with and without the trailing '/'.
C8_ListingImmediateChildren ==
    (call.name = "list_bucket_contents" /\ ret.exc = NoErr) =>
        LET dirs == ret.value[1]
            files == ret.value[2]
            P == DirPrefix(call.subdir)
        IN  /\ Range(files) = FilesUnder(store, P)
            /\ StrictlySorted(files)
            /\ Range(dirs) = DirsUnder(store, P)
            /\ StrictlySorted(dirs)
            /\ \A i \in DOMAIN files : ~HasSlash(files[i])
            /\ \A i \in DOMAIN dirs : ~HasSlash(dirs[i])
            /\ Listing(store, OtherSpelling(call.subdir)) = ret.value

\* C8 witness: a listing of 'a' (no trailing '/') that reports a file and a
\* directory while the bucket holds an object two levels below 'a'.
C8_Witness ==
    /\ call.name = "list_bucket_contents"
    /\ ret.exc = NoErr
    /\ call.subdir = <<"a">>
    /\ ret.value[1] # <<>>
    /\ ret.value[2] # <<>>
    /\ \E k \in DOMAIN store :
          StartsWith(k, <<"a", "/">>) /\ HasSlash(SliceFrom(k, 2))
              /\ HasSlash(SliceFrom(k, FirstSlashFrom(k, 2)))

\* C9: once upload_dir_contents has stored a file named f of source_dir at
\* posixpath.join(dest_dir, f), list_bucket_contents(subdir=dest_dir) reports it
\* under exactly the name f, once.
C9_StripInvertsJoin ==
    (call.name = "upload_dir_contents" /\ ret.exc = NoErr) =>
        LET files == Listing(store, call.dest_dir)[2]
        IN  \A f \in DOMAIN call.source_dir :
                call.source_dir[f].kind = "file" =>
                    Cardinality({i \in DOMAIN files : files[i] = f}) = 1

\* C9 witness: files uploaded to a dest_dir written without its trailing '/'.
C9_Witness ==
    /\ call.name = "upload_dir_contents"
    /\ ret.exc = NoErr
    /\ call.dest_dir = <<"a">>
    /\ \E f \in DOMAIN call.source_dir : call.source_dir[f].kind = "file"

\* The files of a local directory: relative path (list of names) and content.
RECURSIVE LocalFiles(_)
LocalFiles(dir) ==
    UNION {IF dir[n].kind = "file"
           THEN {[path |-> <<n>>, content |-> dir[n].content]}
           ELSE {[path |-> <<n>> \o f.path, content |-> f.content] :
                    f \in LocalFiles(dir[n].children)} : n \in DOMAIN dir}

\* dest_dir/r for a relative path r given as its list of names.
RECURSIVE SlashJoined(_)
SlashJoined(r) ==
    IF Len(r) = 1 THEN r[1] ELSE r[1] \o Slash \o SlashJoined(Tail(r))

RemotePath(dest_dir, r) == DirPrefix(dest_dir) \o SlashJoined(r)

\* C10: after upload_dir_contents succeeds every local file at relative path r
\* is stored at dest_dir/r with the local content, and every other object of
\* the bucket is as it was (no object added, removed or changed).
C10_MergeWithOverwrite ==
    (call.name = "upload_dir_contents" /\ ret.exc = NoErr) =>
        LET local == LocalFiles(call.source_dir)
            targets == {RemotePath(call.dest_dir, f.path) : f \in local}
        IN  /\ \A f \in local :
                  /\ RemotePath(call.dest_dir, f.path) \in DOMAIN store
                  /\ store[RemotePath(call.dest_dir, f.path)].content = f.content
            /\ \A k \in (DOMAIN store \cup DOMAIN call.pre) \ targets :
                  /\ k \in DOMAIN store
                  /\ k \in DOMAIN call.pre
                  /\ store[k] = call.pre[k]

\* C10 witness: an upload that replaced the content of an existing object,
\* stored a file two levels down and left another object alone.
C10_Witness ==
    /\ call.name = "upload_dir_contents"
    /\ ret.exc = NoErr
    /\ \E f \in LocalFiles(call.source_dir) :
          /\ RemotePath(call.dest_dir, f.path) \in DOMAIN call.pre
          /\ call.pre[RemotePath(call.dest_dir, f.path)].content # f.content
    /\ \E f \in LocalFiles(call.source_dir) : Len(f.path) >= 2
    /\ \E k \in DOMAIN call.pre :
          k \notin {RemotePath(call.dest_dir, f.path) : f \in LocalFiles(call.source_dir)}

\* The entries of a fine_grained_acl_list name distinct identifiers.
DistinctIdentifiers(acl_list) ==
    \A i, j \in DOMAIN acl_list :
        i # j => <<acl_list[i][1], acl_list[i][2]>> # <<acl_list[j][1], acl_list[j][2]>>

\* The object names the last upload call was to write.
UploadedPaths ==
    IF call.name = "upload_file" THEN {call.dest_path}
    ELSE {RemotePath(call.dest_dir, f.path) : f \in LocalFiles(call.source_dir)}

\* C11: after upload_file or upload_dir_contents succeeds with a
\* fine_grained_acl_list of distinct identifiers, get_acl returns, for every file
\* the call uploaded (at every depth) and every (id_type, id_value, permission)
\* of the list, that permission.
C11_AclListApplied ==
    (call.name \in {"upload_file", "upload_dir_contents"} /\ ret.exc = NoErr
        /\ DistinctIdentifiers(call.acl_list)) =>
        \A k \in UploadedPaths : \A i \in DOMAIN call.acl_list :
            LET g == Granted(store, k, call.acl_list[i][1], call.acl_list[i][2])
            IN  g.exc = NoErr /\ g.ret = call.acl_list[i][3]

\* C11 witness: a tree with a file three levels down, uploaded with a list of
\* two entries over an object that was there before.
C11_Witness ==
    /\ call.name = "upload_dir_contents"
    /\ ret.exc = NoErr
    /\ Len(call.acl_list) = 2
    /\ DistinctIdentifiers(call.acl_list)
    /\ \E f \in LocalFiles(call.source_dir) : Len(f.path) = 3
    /\ UploadedPaths \cap DOMAIN call.pre # {}

\* dest_dir/r on the local disk, for a relative path r given as its names.
LocalPath(dest_dir, r) == StripSlash(dest_dir) \o Slash \o SlashJoined(r)

\* C12: a file stored by upload_file and fetched by the next call, download_file
\* of the same path, arrives with the content uploaded; a tree stored by
\* upload_dir_contents and fetched by the next call, download_dir_contents of
\* the same remote directory into a local directory holding nothing, arrives
\* with every file at its relative path with its content.
C12_RoundTrip ==
    /\ (call.name = "download_file" /\ ret.exc = NoErr
          /\ call.prev.ok /\ call.prev.call.name = "upload_file"
          /\ call.prev.call.dest_path = call.source_path) =>
          /\ call.dest_path \in DOMAIN disk.files
          /\ disk.files[call.dest_path] = call.prev.call.content
    /\ (call.name = "download_dir_contents" /\ ret.exc = NoErr
          /\ call.prev.ok /\ call.prev.call.name = "upload_dir_contents"
          /\ DirPrefix(call.prev.call.dest_dir) = DirPrefix(call.source_dir)
          /\ call.pre_disk = EmptyDisk) =>
          \A f \in LocalFiles(call.prev.call.source_dir) :
              /\ LocalPath(call.dest_dir, f.path) \in DOMAIN disk.files
              /\ disk.files[LocalPath(call.dest_dir, f.path)] = f.content

\* C12 witness: a tree with files at three depths, uploaded and downloaded
\* through the two spellings of the remote directory.
C12_Witness ==
    /\ call.name = "download_dir_contents"
    /\ ret.exc = NoErr
    /\ call.prev.ok
    /\ call.prev.call.name = "upload_dir_contents"
    /\ call.prev.call.dest_dir = <<"a", "/">>
    /\ call.source_dir = <<"a">>
    /\ call.pre_disk = EmptyDisk
    /\ \E f \in LocalFiles(call.prev.call.source_dir) : Len(f.path) = 3
    /\ \E f \in LocalFiles(call.prev.call.source_dir) : Len(f.path) = 1

\* The name of an object within its parent directory.
BaseName(path) == SliceFrom(path, Len(DirPrefix(os_path_dirname(path))))

\* C13: after delete_file succeeds, list_bucket_contents of the parent
\* directory of path does not report the file, and reports no dirs and no files
\* when nothing is left under that directory; the bucket is what it was less
\* that one object, every other object keeping its content and ACL.
C13_DeleteFile ==
    (call.name = "delete_file" /\ ret.exc = NoErr) =>
        LET parent == os_path_dirname(call.path)
            listing == Listing(store, parent)
        IN  /\ \A i \in DOMAIN listing[2] : listing[2][i] # BaseName(call.path)
            /\ (\A k \in DOMAIN store : ~StartsWith(k, DirPrefix(parent))) =>
                  listing = <<<<>>, <<>>>>
            /\ call.path \in DOMAIN call.pre
            /\ DOMAIN store = DOMAIN call.pre \ {call.path}
            /\ \A k \in DOMAIN store : store[k] = call.pre[k]

\* C13 witness: the only object under a directory has been deleted while the
\* bucket holds other objects.
C13_Witness ==
    /\ call.name = "delete_file"
    /\ ret.exc = NoErr
    /\ os_path_dirname(call.path) # <<>>
    /\ Listing(store, os_path_dirname(call.path)) = <<<<>>, <<>>>>
    /\ Listing(call.pre, os_path_dirname(call.path))[2] = <<BaseName(call.path)>>
    /\ Cardinality(DOMAIN store) >= 2

\* C14: a server error that leaves any public method of GSUtils carries the
\* context its except clause appended (the operation and the bucket or path).
C14_ServerErrorContext ==
    ret.exc.type = "BotoServerError" => ret.exc.context # ""

\* The files of a local directory in the order of a walk that takes the names of
\* each directory in ascending order and enters a subdirectory where its name
\* comes: relative path (list of names) and content.
RECURSIVE OrderedFiles(_)
RECURSIVE OrderedFrom(_, _)
OrderedFrom(dir, names) ==
    IF names = <<>> THEN <<>>
    ELSE LET n == Head(names)
             below == OrderedFiles(dir[n].children)
         IN  (IF dir[n].kind = "file"
              THEN <<[path |-> <<n>>, content |-> dir[n].content]>>
              ELSE [i \in DOMAIN below |->
                      [path |-> <<n>> \o below[i].path, content |-> below[i].content]])
             \o OrderedFrom(dir, Tail(names))

OrderedFiles(dir) == OrderedFrom(dir, Sorted(DOMAIN dir))

\* The object at key holds the content and grants every permission of the list.
UploadedInFull(key, content, acl_list) ==
    /\ key \in DOMAIN store
    /\ store[key].content = content
    /\ \A i \in DOMAIN acl_list :
          Granted(store, key, acl_list[i][1], acl_list[i][2]).ret = acl_list[i][3]

\* The last call left the object at key as it was (or absent, if it was absent).
Untouched(key) ==
    IF key \in DOMAIN call.pre
    THEN key \in DOMAIN store /\ store[key] = call.pre[key]
    ELSE key \notin DOMAIN store

\* C22: when upload_dir_contents raises, the files of source_dir, in the order of
\* the sorted walk, split at one file: every file before it is uploaded with the
\* whole ACL list, every file after it is untouched (not uploaded, ACL as
\* before), and if it was an upload request that failed that file is untouched
\* as well; objects that are no target of the call are unchanged.  When the
\* upload request of upload_file fails nothing has changed, and whenever
\* upload_file raises no other object has changed.
C22_UploadOrderAndFailure ==
    /\ (call.name = "upload_dir_contents" /\ ret.exc # NoErr) =>
          LET fs == OrderedFiles(call.source_dir)
              key(i) == RemotePath(call.dest_dir, fs[i].path)
          IN  /\ \E j \in 0..Len(fs) :
                    /\ \A i \in 1..j :
                          UploadedInFull(key(i), fs[i].content, call.acl_list)
                    /\ \A i \in (j + 2)..Len(fs) : Untouched(key(i))
                    /\ ret.exc.context = "while uploading" =>
                          j < Len(fs) /\ Untouched(key(j + 1))
              /\ \A k \in (DOMAIN store \cup DOMAIN call.pre)
                            \ {key(i) : i \in DOMAIN fs} : Untouched(k)
    /\ (call.name = "upload_file" /\ ret.exc # NoErr) =>
          /\ ret.exc.context = "while uploading" => store = call.pre
          /\ \A k \in (DOMAIN store \cup DOMAIN call.pre) \ {call.dest_path} :
                Untouched(k)

\* C22 witness: an ACL request of the second file of the walk failed: the first
\* file carries both entries of the list, the second is uploaded without them,
\* the third, in a subdirectory, is not there.
C22_Witness ==
    /\ call.name = "upload_dir_contents"
    /\ ret.exc # NoErr
    /\ ret.exc.context # "while uploading"
    /\ Len(call.acl_list) = 2
    /\ LET fs == OrderedFiles(call.source_dir)
           key(i) == RemotePath(call.dest_dir, fs[i].path)
       IN  /\ Len(fs) = 3
           /\ Len(fs[2].path) = 2
           /\ UploadedInFull(key(1), fs[1].content, call.acl_list)
           /\ key(2) \in DOMAIN store
           /\ key(2) \notin DOMAIN call.pre
           /\ ~UploadedInFull(key(2), fs[2].content, call.acl_list)
           /\ key(3) \notin DOMAIN store

\* The objects under remote directory P (written with its trailing '/') in the
\* order download_dir_contents is to fetch them into local directory L: the
\* files directly under P by name, then each subdirectory by name, in full.
RECURSIVE DownloadOrder(_, _, _)
RECURSIVE DownloadOrderOfDirs(_, _, _, _)
DownloadOrderOfDirs(st, P, L, dirs) ==
    IF dirs = <<>> THEN <<>>
    ELSE DownloadOrder(st, P \o Head(dirs) \o Slash, L \o Slash \o Head(dirs))
         \o DownloadOrderOfDirs(st, P, L, Tail(dirs))

DownloadOrder(st, P, L) ==
    LET files == Sorted(FilesUnder(st, P))
    IN  [i \in DOMAIN files |-> [key |-> P \o files[i], local |-> L \o Slash \o files[i]]]
        \o DownloadOrderOfDirs(st, P, L, Sorted(DirsUnder(st, P)))

\* The last call left the local file at path p as it was (or absent).
LocalUntouched(p) ==
    IF p \in DOMAIN call.pre_disk.files
    THEN p \in DOMAIN disk.files /\ disk.files[p] = call.pre_disk.files[p]
    ELSE p \notin DOMAIN disk.files

\* C23: no download call returns or raises with a file still open.  When the
\* content request of download_file fails, the destination file exists and is
\* empty, and no other local file has changed.  When a content request of
\* download_dir_contents fails, the objects split, in the order of the walk, at
\* one file: the files before it hold their objects' contents, that file exists
\* and is empty, the files after it are untouched, and no directory has been
\* created for them.
C23_OpenBeforeRequest ==
    /\ call.name \in {"download_file", "download_dir_contents"} => disk.handles = {}
    /\ (call.name = "download_file" /\ ret.exc = BotoServerError("while downloading")) =>
          /\ call.dest_path \in DOMAIN disk.files
          /\ disk.files[call.dest_path] = ""
          /\ \A p \in (DOMAIN disk.files \cup DOMAIN call.pre_disk.files)
                         \ {call.dest_path} : LocalUntouched(p)
    /\ (call.name = "download_dir_contents"
          /\ ret.exc = BotoServerError("while downloading")) =>
          LET order == DownloadOrder(store, DirPrefix(call.source_dir), call.dest_dir)
          IN  \E j \in DOMAIN order :
                  /\ \A i \in 1..(j - 1) :
                        /\ order[i].local \in DOMAIN disk.files
                        /\ disk.files[order[i].local] = store[order[i].key].content
                  /\ order[j].local \in DOMAIN disk.files
                  /\ disk.files[order[j].local] = ""
                  /\ \A i \in (j + 1)..Len(order) : LocalUntouched(order[i].local)
                  /\ disk.dirs \subseteq
                        call.pre_disk.dirs \cup {call.dest_dir}
                        \cup UNION {Ancestors(order[i].local) : i \in 1..j}
                  /\ \A p \in (DOMAIN disk.files \cup DOMAIN call.pre_disk.files)
                                 \ {order[i].local : i \in DOMAIN order} :
                        LocalUntouched(p)

\* C23 witness: the request for the second of two files failed in a directory
\* download over older local files: the first file holds the object's content,
\* the second is empty, the one in the subdirectory still holds the old content.
C23_Witness ==
    /\ call.name = "download_dir_contents"
    /\ ret.exc = BotoServerError("while downloading")
    /\ LET order == DownloadOrder(store, DirPrefix(call.source_dir), call.dest_dir)
       IN  /\ Len(order) = 3
           /\ call.pre_disk = OldDisk
           /\ \A i \in 1..3 : order[i].local \in DOMAIN OldDisk.files
           /\ disk.files[order[1].local] = store[order[1].key].content
           /\ call.pre_disk.files[order[2].local] = "old"
           /\ disk.files[order[2].local] = ""
           /\ disk.files[order[3].local] = "old"
           /\ Len(order[3].local) > Len(order[2].local)

====
